---- MODULE Spec2Model ----
(***************************************************************************)
(* Model of the smart-splitter allocation engine (package splitter):        *)
(* ProcessInvestment with repairViolations, and ProcessRedemption with      *)
(* checkRedemptionMinimums and redemptionType.                              *)
(*                                                                         *)
(* Number representation.  The engine computes on shopspring decimals.     *)
(*   - an amount is an integer count of minimal amount units               *)
(*     (10^-amountPrec); Truncate(amountPrec) is a floor to an integer.    *)
(*   - a unit count is an integer count of minimal units (10^-unitPrec).   *)
(*   - a price is the integer number of minimal amount units that one      *)
(*     minimal unit count costs.                                           *)
(*   - a weight is a numerator over WeightDen, a fee a numerator over      *)
(*     FeeDen.                                                             *)
(*   - an exact intermediate value (ideal, feeAdjusted) is a rational      *)
(*     <<numerator, denominator>> in lowest terms.                         *)
(* decimal.Add, Sub, Mul are exact.  decimal.Div rounds the quotient half  *)
(* away from zero at DivisionPrecision decimal places; the operators       *)
(* DivMulTruncate, DivTruncate and DivCeil below compute the value the     *)
(* code obtains from a Div followed by Mul/Truncate/Ceil, rounding         *)
(* included.  The drawn inputs keep the quotient weight/totalWeight of the *)
(* fallback exactly representable, see FallbackDivExact; the quotient      *)
(* ideal/(1-fee) is exactly representable while amountPrec is below        *)
(* DivisionPrecision and is rounded above it, see RoundAtDivisionPrecision.*)
(* An amount of 10^16 minimal units or more does not fit the integers:     *)
(* the redemption orders of that size are those of WholeUnitSpec, with     *)
(* their own representation of an amount.                                  *)
(***************************************************************************)
EXTENDS Integers, Sequences, FiniteSets, TLC

VARIABLES goal, pc, allocs, grossAmounts, rep, result, remaining, details, transactionType

vars == <<goal, pc, allocs, grossAmounts, rep, result, remaining, details, transactionType>>

----------------------------------------------------------------------------
(* Scales of the representation and the precision of decimal.Div *)

WeightDen == 10
FeeDen == 10
DivisionPrecision == 16

----------------------------------------------------------------------------
(* Bounds of the model *)

MaxOrder == 12

MaxValue == 7

MaxIncrease == 3

----------------------------------------------------------------------------
(* Exact arithmetic helpers *)

Max(a, b) == IF a >= b THEN a ELSE b

Min(a, b) == IF a <= b THEN a ELSE b

RECURSIVE GCD(_, _)
GCD(a, b) == IF b = 0 THEN a ELSE GCD(b, a % b)

\* a rational n/d (d > 0, n >= 0 or n < 0) in lowest terms
Rat(n, d) == LET g == GCD(IF n < 0 THEN -n ELSE n, d) IN <<n \div g, d \div g>>

RatAdd(x, y) == Rat(x[1] * y[2] + y[1] * x[2], x[2] * y[2])

RatMulInt(x, k) == Rat(x[1] * k, x[2])

\* x / y for rationals x >= 0, y > 0
RatQuot(x, y) == Rat(x[1] * y[2], x[2] * y[1])

RatIsZero(x) == x[1] = 0

FloorDiv(n, d) == n \div d

CeilDiv(n, d) == -((-n) \div d)

RECURSIVE SumSeq(_)
SumSeq(s) == IF s = <<>> THEN 0 ELSE Head(s) + SumSeq(Tail(s))

RECURSIVE RatSumSeq(_)
RatSumSeq(s) == IF s = <<>> THEN <<0, 1>> ELSE RatAdd(Head(s), RatSumSeq(Tail(s)))

\* the quotient with denominator d (lowest terms) has a finite decimal
\* expansion of at most 9 <= DivisionPrecision places
ExactQuotient(d) == 1000000000 % d = 0

\* (r * 10^k) mod d, by long division
RECURSIVE ShiftRem(_, _, _)
ShiftRem(r, d, k) == IF k = 0 THEN r ELSE ShiftRem((r * 10) % d, d, k - 1)

\* decimal.Div(x, y) for x >= 0, y > 0 rounds x/y to DivisionPrecision places,
\* half away from zero: TRUE when the stored quotient is below x/y
DivRoundsDown(q) ==
    LET rem == ShiftRem(q[1] % q[2], q[2], DivisionPrecision)
    IN  rem # 0 /\ 2 * rem < q[2]

\* x.Div(y).Mul(c).Truncate(amountPrec), c an amount: the rounded quotient
\* differs from x/y by less than 10^-16, so the truncated product is the
\* floor of (x/y)*c, one minimal unit less when (x/y)*c is a whole number of
\* minimal units and the quotient was rounded down
DivMulTruncate(x, y, c) ==
    LET q == RatQuot(x, y)
        p == q[1] * c
    IN  IF p % q[2] = 0 /\ DivRoundsDown(q) THEN (p \div q[2]) - 1 ELSE p \div q[2]

\* n.Div(d).Truncate(prec) for n >= 0, d > 0 in minimal units of the result
DivTruncate(n, d) == FloorDiv(n, d)

\* ceilToPrec(n.Div(d), amountPrec) for n >= 0, d > 0
DivCeil(n, d) == CeilDiv(n, d)

\* an insertion that places the pair before the pairs of equal key
RECURSIVE InsertPairBeforeEqual(_, _)
InsertPairBeforeEqual(e, s) ==
    IF s = <<>> THEN <<e>>
    ELSE IF e[1] <= s[Len(s)][1]
         THEN Append(InsertPairBeforeEqual(e, SubSeq(s, 1, Len(s) - 1)), s[Len(s)])
    ELSE Append(s, e)

\* sort.Slice on a slice of at most 12 elements is an insertion sort, which
\* keeps equal keys in their input order.  InsertPair inserts the pair
\* <<key, element>> e into the sorted sequence s, after the pairs whose key is
\* not greater
RECURSIVE InsertPair(_, _)
InsertPair(e, s) ==
    IF s = <<>> THEN <<e>>
    ELSE IF e[1] < s[Len(s)][1] THEN Append(InsertPair(e, SubSeq(s, 1, Len(s) - 1)), s[Len(s)])
    ELSE Append(s, e)

RECURSIVE SortPairs(_)
SortPairs(s) ==
    IF s = <<>> THEN <<>>
    ELSE InsertPair(s[Len(s)], SortPairs(SubSeq(s, 1, Len(s) - 1)))

\* s sorted ascending by keys (keys[i] is the key of s[i]), equal keys in
\* input order
SortByKey(s, keys) ==
    LET sorted == SortPairs([i \in 1..Len(s) |-> <<keys[i], s[i]>>])
    IN  [i \in 1..Len(s) |-> sorted[i][2]]

\* the sequence s with element i set to x
SetAt(s, i, x) == [k \in 1..Len(s) |-> IF k = i THEN x ELSE s[k]]

\* the indices 1..n of a slice, ascending
Indices(n) == [i \in 1..n |-> i]

----------------------------------------------------------------------------
(* Input: models.Goal with its holdings (GoalDetails) and model targets     *)
(* (ModelPortfolioDetails).  A product kind fixes the fee, the price and    *)
(* the eight minimums of a product.                                         *)

NoError == "none"

Plain ==
    [transactionFee |-> 0, marketPrice |-> 1,
     minInitialInvestmentAmt |-> 0, minInitialInvestmentUnits |-> 0,
     minTopupAmt |-> 0, minTopupUnits |-> 0,
     minRedemptionAmt |-> 0, minRedemptionUnits |-> 0,
     minHoldingAmt |-> 0, minHoldingUnits |-> 0]

WithAmountMinimums ==
    [transactionFee |-> 0, marketPrice |-> 1,
     minInitialInvestmentAmt |-> 4, minInitialInvestmentUnits |-> 0,
     minTopupAmt |-> 2, minTopupUnits |-> 0,
     minRedemptionAmt |-> 3, minRedemptionUnits |-> 0,
     minHoldingAmt |-> 2, minHoldingUnits |-> 0]

WithFeeAndUnitMinimums ==
    [transactionFee |-> 5, marketPrice |-> 2,
     minInitialInvestmentAmt |-> 1, minInitialInvestmentUnits |-> 1,
     minTopupAmt |-> 0, minTopupUnits |-> 1,
     minRedemptionAmt |-> 0, minRedemptionUnits |-> 2,
     minHoldingAmt |-> 0, minHoldingUnits |-> 1]

Kinds == {Plain, WithAmountMinimums, WithFeeAndUnitMinimums}

WeightSet == {0, 2, 3, 5, 10}

ModelTickers == <<"A", "B", "C">>

HeldTickers == <<"A", "B", "D">>

OrderTypes == {"investment", "redemption"}

ModelItem(t, w, k) ==
    [ticker |-> t, weight |-> w, marketPrice |-> k.marketPrice,
     minInitialInvestmentAmt |-> k.minInitialInvestmentAmt,
     minInitialInvestmentUnits |-> k.minInitialInvestmentUnits,
     minTopupAmt |-> k.minTopupAmt, minTopupUnits |-> k.minTopupUnits,
     minRedemptionAmt |-> k.minRedemptionAmt, minRedemptionUnits |-> k.minRedemptionUnits,
     minHoldingAmt |-> k.minHoldingAmt, minHoldingUnits |-> k.minHoldingUnits,
     transactionFee |-> k.transactionFee]

\* a holding of value v; its units are value / price, truncated
Holding(t, v, k) ==
    [ticker |-> t, units |-> v \div k.marketPrice, marketPrice |-> k.marketPrice, value |-> v,
     minRedemptionAmt |-> k.minRedemptionAmt, minRedemptionUnits |-> k.minRedemptionUnits,
     minHoldingAmt |-> k.minHoldingAmt, minHoldingUnits |-> k.minHoldingUnits]

----------------------------------------------------------------------------
(* ProcessInvestment, up to the truncated gross amounts *)

\* holdingsMap[t]: the value of the last holding with ticker t, zero when
\* the ticker is not held
HoldingsMapValue(g, t) ==
    LET idx == SelectSeq(Indices(Len(g.goalDetails)), LAMBDA i : g.goalDetails[i].ticker = t)
    IN  IF idx = <<>> THEN 0 ELSE g.goalDetails[idx[Len(idx)]].value

\* vTotal of ProcessInvestment: every holding counts
InvestVTotal(g) == SumSeq([i \in 1..Len(g.goalDetails) |-> g.goalDetails[i].value])

\* a shortfall that adds the current value instead of subtracting it
ShortfallSignSlip(weight, postTotal, currentVal) ==
    Rat(Max(0, weight * postTotal + currentVal * WeightDen), WeightDen)

\* a shortfall that leaves the weight out of the target
ShortfallUnweighted(weight, postTotal, currentVal) ==
    Rat(Max(0, postTotal - currentVal), 1)

\* ideal_i = max(0, w_i * postTotal - currentValue_i), as a rational
Shortfall(weight, postTotal, currentVal) ==
    Rat(Max(0, weight * postTotal - currentVal * WeightDen), WeightDen)

\* the allocs without the targets whose shortfall is zero
ShortfallAllocsSkippingZeroShortfall(g) ==
    LET postTotal == InvestVTotal(g) + g.orderAmount
        kept == SelectSeq(g.modelPortfolioDetails,
                          LAMBDA mp : /\ mp.weight # 0
                                      /\ ~RatIsZero(Shortfall(mp.weight, postTotal,
                                                              HoldingsMapValue(g, mp.ticker))))
    IN  [i \in 1..Len(kept) |->
            LET currentVal == HoldingsMapValue(g, kept[i].ticker)
            IN  [mp |-> kept[i], current |-> currentVal,
                 ideal |-> Shortfall(kept[i].weight, postTotal, currentVal)]]

\* the model targets with weight > 0, in input order, with their shortfall
ShortfallAllocs(g) ==
    LET postTotal == InvestVTotal(g) + g.orderAmount
        kept == SelectSeq(g.modelPortfolioDetails, LAMBDA mp : mp.weight # 0)
    IN  [i \in 1..Len(kept) |->
            LET currentVal == HoldingsMapValue(g, kept[i].ticker)
            IN  [mp |-> kept[i], current |-> currentVal,
                 ideal |-> Shortfall(kept[i].weight, postTotal, currentVal)]]

TotalWeight(as) == SumSeq([i \in 1..Len(as) |-> as[i].mp.weight])

TotalIdealIsZero(as) == \A i \in 1..Len(as) : RatIsZero(as[i].ideal)

\* a fallback ideal that is not divided by the total weight
FallbackIdealUnnormalised(weight, totalWeight, orderAmount) ==
    Rat(weight * orderAmount, WeightDen)

\* the fallback's ideal: w.Div(totalWeight).Mul(orderAmount)
FallbackIdeal(weight, totalWeight, orderAmount) == Rat(weight * orderAmount, totalWeight)

\* allocs after the fallback
InvestAllocs(g) ==
    LET as == ShortfallAllocs(g)
    IN  IF TotalIdealIsZero(as)
        THEN [i \in 1..Len(as) |->
                [as[i] EXCEPT !.ideal = FallbackIdeal(as[i].mp.weight, TotalWeight(as), g.orderAmount)]]
        ELSE as

\* the quotients weight / totalWeight of the fallback are exact decimals
FallbackDivExact(g) ==
    LET as == ShortfallAllocs(g)
    IN  TotalIdealIsZero(as) =>
            \A i \in 1..Len(as) : ExactQuotient(Rat(as[i].mp.weight, TotalWeight(as))[2])

\* the amount x (a rational count of minimal amount units) as decimal.Div
\* stores it: rounded half away from zero at DivisionPrecision places.  Below
\* DivisionPrecision the quotients of the drawn inputs (denominators 2, 5,
\* 10) are stored exactly; above it one place of DivisionPrecision is
\* 10^(amountPrec - DivisionPrecision) minimal amount units
RoundAtDivisionPrecision(x, amountPrec) ==
    IF amountPrec <= DivisionPrecision THEN x
    ELSE LET step == 10 ^ (amountPrec - DivisionPrecision)
         IN  Rat(step * ((2 * x[1] + step * x[2]) \div (2 * step * x[2])), 1)

\* feeAdjusted_i = ideal_i.Div(1 - fee_i)
FeeAdjusted(a, amountPrec) ==
    RoundAtDivisionPrecision(RatQuot(a.ideal, <<FeeDen - a.mp.transactionFee, FeeDen>>),
                             amountPrec)

\* totalFeeAdjusted is zero although there are allocs: the Div of Pass 1
\* panics with "decimal division by 0"
TotalFeeAdjustedIsZero(as, amountPrec) ==
    /\ as # <<>>
    /\ RatIsZero(RatSumSeq([i \in 1..Len(as) |-> FeeAdjusted(as[i], amountPrec)]))

\* Pass 1: gross_i = feeAdjusted_i / totalFeeAdjusted * orderAmount, truncated
InitialGross(as, orderAmount, amountPrec) ==
    LET feeAdjusted == [i \in 1..Len(as) |-> FeeAdjusted(as[i], amountPrec)]
        totalFeeAdjusted == RatSumSeq(feeAdjusted)
    IN  [i \in 1..Len(as) |-> DivMulTruncate(feeAdjusted[i], totalFeeAdjusted, orderAmount)]

----------------------------------------------------------------------------
(* repairViolations *)

\* decimal.New(1, -amountPrec): one minimal amount unit
Unit == 1

\* the minimums that apply: initial investment when the product's current
\* value is zero, top-up otherwise
ApplicableMinAmt(a) ==
    IF a.current = 0 THEN a.mp.minInitialInvestmentAmt ELSE a.mp.minTopupAmt

ApplicableMinUnits(a) ==
    IF a.current = 0 THEN a.mp.minInitialInvestmentUnits ELSE a.mp.minTopupUnits

\* requiredNet = max(minAmt, minUnits * price)
RequiredNet(a) == Max(ApplicableMinAmt(a), ApplicableMinUnits(a) * a.mp.marketPrice)

\* ceilToPrec(d, prec) = d.Mul(10^prec).Ceil().Div(10^prec): the ceiling in
\* minimal units, its final Div rounded at DivisionPrecision
ceilToPrec(d, amountPrec) ==
    RoundAtDivisionPrecision(Rat(DivCeil(d[1], d[2]), 1), amountPrec)[1]

\* reqGross = ceilToPrec(requiredNet.Div(1 - fee), amountPrec); 0 if no
\* minimum applies
ReqGross(a, amountPrec) ==
    IF RequiredNet(a) > 0 /\ FeeDen - a.mp.transactionFee > 0
    THEN ceilToPrec(RoundAtDivisionPrecision(
                        Rat(RequiredNet(a) * FeeDen, FeeDen - a.mp.transactionFee),
                        amountPrec),
                    amountPrec)
    ELSE 0

RepairItems(as, gross, amountPrec) ==
    [i \in 1..Len(as) |-> [gross |-> gross[i], reqGross |-> ReqGross(as[i], amountPrec)]]

\* positive gross below reqGross
IsViolation(it) == it.gross # 0 /\ it.reqGross # 0 /\ it.gross < it.reqGross

\* the violations, costliest bump first
ViolationsCostliestFirst(items) ==
    LET idx == SelectSeq(Indices(Len(items)), LAMBDA i : IsViolation(items[i]))
        found == [k \in 1..Len(idx) |->
                     [idx |-> idx[k], bump |-> items[idx[k]].reqGross - items[idx[k]].gross]]
    IN  SortByKey(found, [k \in 1..Len(found) |-> -found[k].bump])

\* the violations, cheapest bump first
Violations(items) ==
    LET idx == SelectSeq(Indices(Len(items)), LAMBDA i : IsViolation(items[i]))
        found == [k \in 1..Len(idx) |->
                     [idx |-> idx[k], bump |-> items[idx[k]].reqGross - items[idx[k]].gross]]
    IN  SortByKey(found, [k \in 1..Len(found) |-> found[k].bump])

\* slack info that counts the whole gross as safe slack
SlackItemsIgnoringMinimum(items) ==
    LET idx == SelectSeq(Indices(Len(items)), LAMBDA i : ~IsViolation(items[i]) /\ items[i].gross # 0)
    IN  [k \in 1..Len(idx) |->
            [idx |-> idx[k], safeSlack |-> items[idx[k]].gross,
             reqGross |-> items[idx[k]].reqGross]]

\* slack info of the non-violating products with a positive gross
SlackItems(items) ==
    LET idx == SelectSeq(Indices(Len(items)), LAMBDA i : ~IsViolation(items[i]) /\ items[i].gross # 0)
    IN  [k \in 1..Len(idx) |->
            [idx |-> idx[k], safeSlack |-> items[idx[k]].gross - items[idx[k]].reqGross,
             reqGross |-> items[idx[k]].reqGross]]

\* zero-out candidates, smallest reqGross first
ZeroableSorted(slackItems) ==
    SortByKey(slackItems, [k \in 1..Len(slackItems) |-> slackItems[k].reqGross])

\* the state of repairViolations when it enters the loop over the violations;
\* returned: one of the two early returns was taken
RepairStart(as, gross, amountPrec) ==
    LET items == RepairItems(as, gross, amountPrec)
        violations == Violations(items)
        slackItems == SlackItems(items)
    IN  [items |-> items, violations |-> violations, slackItems |-> slackItems,
         zeroableSorted |-> ZeroableSorted(slackItems),
         result |-> gross, zeroedSet |-> {},
         remainingSlack |-> SumSeq([k \in 1..Len(slackItems) |-> slackItems[k].safeSlack]),
         totalBumpUsed |-> 0, vi |-> 1,
         returned |-> (violations = <<>> \/ slackItems = <<>>)]

\* Tier 2 scan: take the candidates not yet zeroed with reqGross > 0, in
\* order, until the gain covers extraNeeded
RECURSIVE ZeroScan(_, _, _, _, _)
ZeroScan(cands, zeroedSet, extraNeeded, toZero, extraGained) ==
    IF cands = <<>> THEN [toZero |-> toZero, extraGained |-> extraGained]
    ELSE IF Head(cands).idx \in zeroedSet \/ Head(cands).reqGross = 0
         THEN ZeroScan(Tail(cands), zeroedSet, extraNeeded, toZero, extraGained)
    ELSE IF extraGained + Head(cands).reqGross >= extraNeeded
         THEN [toZero |-> Append(toZero, Head(cands).idx),
               extraGained |-> extraGained + Head(cands).reqGross]
    ELSE ZeroScan(Tail(cands), zeroedSet, extraNeeded,
                  Append(toZero, Head(cands).idx), extraGained + Head(cands).reqGross)

\* a Tier 1 that bumps the violation to one unit below its reqGross
TierOneShortByUnit(r, v) ==
    [r EXCEPT !.result = SetAt(r.result, v.idx, r.items[v.idx].reqGross - Unit),
              !.remainingSlack = @ - v.bump,
              !.totalBumpUsed = @ + v.bump,
              !.vi = @ + 1]

\* a Tier 1 that leaves the remaining safe slack as it was
TierOneKeepingPool(r, v) ==
    [r EXCEPT !.result = SetAt(r.result, v.idx, r.items[v.idx].reqGross),
              !.totalBumpUsed = @ + v.bump,
              !.vi = @ + 1]

\* Tier 1: the bump fits the remaining safe slack
TierOne(r, v) ==
    [r EXCEPT !.result = SetAt(r.result, v.idx, r.items[v.idx].reqGross),
              !.remainingSlack = @ - v.bump,
              !.totalBumpUsed = @ + v.bump,
              !.vi = @ + 1]

\* a Tier 2 that never zeroes and leaves the violation unfixed
TierTwoGivingUp(r, v) == [r EXCEPT !.vi = @ + 1]

\* a Tier 2 that zeroes the scanned candidates although the gap is not covered
TierTwoZeroingOnFailure(r, v) ==
    LET extraNeeded == v.bump - r.remainingSlack
        scan == ZeroScan(r.zeroableSorted, r.zeroedSet, extraNeeded, <<>>, 0)
        toZero == {scan.toZero[k] : k \in 1..Len(scan.toZero)}
    IN  IF scan.extraGained >= extraNeeded
        THEN [r EXCEPT !.result = [i \in 1..Len(r.result) |->
                                      IF i = v.idx THEN r.items[i].reqGross
                                      ELSE IF i \in toZero THEN 0 ELSE r.result[i]],
                       !.zeroedSet = @ \cup toZero,
                       !.remainingSlack = @ + scan.extraGained - v.bump,
                       !.totalBumpUsed = @ + v.bump,
                       !.vi = @ + 1]
        ELSE [r EXCEPT !.result = [i \in 1..Len(r.result) |->
                                      IF i \in toZero THEN 0 ELSE r.result[i]],
                       !.zeroedSet = @ \cup toZero,
                       !.vi = @ + 1]

\* Tier 2: bridge the gap by zeroing non-violating products, or leave the
\* violation unfixed
TierTwo(r, v) ==
    LET extraNeeded == v.bump - r.remainingSlack
        scan == ZeroScan(r.zeroableSorted, r.zeroedSet, extraNeeded, <<>>, 0)
        toZero == {scan.toZero[k] : k \in 1..Len(scan.toZero)}
    IN  IF scan.extraGained >= extraNeeded
        THEN [r EXCEPT !.result = [i \in 1..Len(r.result) |->
                                      IF i = v.idx THEN r.items[i].reqGross
                                      ELSE IF i \in toZero THEN 0 ELSE r.result[i]],
                       !.zeroedSet = @ \cup toZero,
                       !.remainingSlack = @ + scan.extraGained - v.bump,
                       !.totalBumpUsed = @ + v.bump,
                       !.vi = @ + 1]
        ELSE [r EXCEPT !.vi = @ + 1]

\* a loop step that escalates to Tier 2 whatever the remaining safe slack
TierStepAlwaysEscalating(r) == TierTwo(r, r.violations[r.vi])

\* one iteration of the loop over the violations
TierStep(r) ==
    LET v == r.violations[r.vi]
    IN  IF v.bump <= r.remainingSlack THEN TierOne(r, v) ELSE TierTwo(r, v)

RECURSIVE TierLoop(_)
TierLoop(r) == IF r.vi > Len(r.violations) THEN r ELSE TierLoop(TierStep(r))

\* a residual pass that distributes nothing
ResidualPassSkipped(res, residual, redistItems, items) == res

\* a residual pass that takes a unit from a product whatever slack it has left
RECURSIVE ResidualPassUnguarded(_, _, _, _)
ResidualPassUnguarded(res, residual, redistItems, items) ==
    IF redistItems = <<>> \/ residual <= 0 THEN res
    ELSE ResidualPassUnguarded(SetAt(res, Head(redistItems).idx, res[Head(redistItems).idx] - Unit),
                               residual - Unit, Tail(redistItems), items)

\* the residual of the truncated reductions, one unit at a time, in one pass
RECURSIVE ResidualPass(_, _, _, _)
ResidualPass(res, residual, redistItems, items) ==
    IF redistItems = <<>> \/ residual <= 0 THEN res
    ELSE IF res[Head(redistItems).idx] - items[Head(redistItems).idx].reqGross >= Unit
         THEN ResidualPass(SetAt(res, Head(redistItems).idx, res[Head(redistItems).idx] - Unit),
                           residual - Unit, Tail(redistItems), items)
    ELSE ResidualPass(res, residual, Tail(redistItems), items)

\* reduce the non-zeroed products pro-rata by their safe slack
ProRataReduce(r, redistItems, redistSafeSlack, stillNeeded) ==
    LET reductions == [k \in 1..Len(redistItems) |->
                          DivMulTruncate(<<redistItems[k].safeSlack, 1>>, <<redistSafeSlack, 1>>,
                                         stillNeeded)]
        reduced == [i \in 1..Len(r.result) |->
                       LET ks == SelectSeq(Indices(Len(redistItems)), LAMBDA k : redistItems[k].idx = i)
                       IN  IF ks = <<>> THEN r.result[i] ELSE r.result[i] - reductions[ks[1]]]
    IN  ResidualPass(reduced, stillNeeded - SumSeq(reductions), redistItems, r.items)

\* a refund that hands the whole excess to the first fixed violation
RefundLoopToFirst(res, excess, fixedIdxs, k) ==
    IF excess <= 0 \/ fixedIdxs = <<>> THEN res
    ELSE SetAt(res, fixedIdxs[1], res[fixedIdxs[1]] + excess)

\* add the excess back to the fixed violations, one unit at a time, round-robin:
\* the turns go k, k+1, ..., so the fixed violation at position j takes the
\* turns whose number is (j - k) modulo the count, one unit each
RefundLoop(res, excess, fixedIdxs, k) ==
    IF excess <= 0 \/ fixedIdxs = <<>> THEN res
    ELSE LET n == Len(fixedIdxs)
             turns == excess \div Unit
             units(j) == ((turns + n - 1 - ((j - k + n) % n)) \div n) * Unit
         IN  [i \in 1..Len(res) |->
                 LET js == SelectSeq(Indices(n), LAMBDA j : fixedIdxs[j] = i)
                 IN  IF js = <<>> THEN res[i] ELSE res[i] + units(js[1])]

RefundExcess(r, excess) ==
    LET fixed == SelectSeq(r.violations, LAMBDA v : r.result[v.idx] = r.items[v.idx].reqGross)
    IN  RefundLoop(r.result, excess, [k \in 1..Len(fixed) |-> fixed[k].idx], 1)

\* after the loop: balance the sum and return the gross amounts
RepairFinish(r) ==
    LET zeroedContribution == SumSeq([i \in 1..Len(r.items) |->
                                         IF i \in r.zeroedSet THEN r.items[i].gross ELSE 0])
        stillNeeded == r.totalBumpUsed - zeroedContribution
        redistItems == SelectSeq(r.slackItems, LAMBDA si : si.idx \notin r.zeroedSet)
        redistSafeSlack == SumSeq([k \in 1..Len(redistItems) |-> redistItems[k].safeSlack])
    IN  IF r.totalBumpUsed = 0 THEN [i \in 1..Len(r.items) |-> r.items[i].gross]
        ELSE IF stillNeeded > 0
             THEN IF redistSafeSlack > 0
                  THEN ProRataReduce(r, redistItems, redistSafeSlack, stillNeeded)
                  ELSE r.result
        ELSE IF stillNeeded < 0 THEN RefundExcess(r, -stillNeeded)
        ELSE r.result

repairViolations(as, gross, amountPrec) ==
    LET r == RepairStart(as, gross, amountPrec)
    IN  IF r.returned THEN gross ELSE RepairFinish(TierLoop(r))

----------------------------------------------------------------------------
(* ProcessInvestment, Pass 2: the transaction details *)

\* a flag that checks the gross amount and the units the gross amount buys
InvestmentErrorOnGross(a, gross) ==
    LET units == DivTruncate(gross, a.mp.marketPrice)
    IN  IF gross > 0
        THEN IF a.current = 0
             THEN IF gross < a.mp.minInitialInvestmentAmt \/ units < a.mp.minInitialInvestmentUnits
                  THEN "MIN_INVESTMENT_VIOLATION" ELSE NoError
             ELSE IF gross < a.mp.minTopupAmt \/ units < a.mp.minTopupUnits
                  THEN "MIN_TOPUP_VIOLATION" ELSE NoError
        ELSE NoError

\* the flag of an investment allocation: minimums are checked against the
\* net amount gross * (1 - fee) and the units it buys
InvestmentError(a, gross) ==
    LET netTimesFeeDen == gross * (FeeDen - a.mp.transactionFee)
        netUnits == DivTruncate(netTimesFeeDen, FeeDen * a.mp.marketPrice)
    IN  IF gross > 0
        THEN IF a.current = 0
             THEN IF netTimesFeeDen < a.mp.minInitialInvestmentAmt * FeeDen
                     \/ netUnits < a.mp.minInitialInvestmentUnits
                  THEN "MIN_INVESTMENT_VIOLATION" ELSE NoError
             ELSE IF netTimesFeeDen < a.mp.minTopupAmt * FeeDen
                     \/ netUnits < a.mp.minTopupUnits
                  THEN "MIN_TOPUP_VIOLATION" ELSE NoError
        ELSE NoError

InvestmentDetail(a, gross) ==
    [ticker |-> a.mp.ticker, direction |-> "BUY", value |-> gross,
     units |-> DivTruncate(gross, a.mp.marketPrice),
     error |-> InvestmentError(a, gross)]

InvestmentDetails(as, gross) == [i \in 1..Len(as) |-> InvestmentDetail(as[i], gross[i])]

\* ProcessInvestment as a function of its input
ProcessInvestment(g) ==
    LET as == InvestAllocs(g)
    IN  InvestmentDetails(as, repairViolations(as,
                                               InitialGross(as, g.orderAmount,
                                                            g.amountDecimalPrecision),
                                               g.amountDecimalPrecision))

----------------------------------------------------------------------------
(* ProcessRedemption *)

BufferDen == 100

\* the holdings with a positive value, in input order
PositiveHoldings(g) == SelectSeq(g.goalDetails, LAMBDA h : h.value > 0)

\* vTotal of ProcessRedemption: the holdings with a positive value
RedeemVTotal(g) ==
    LET hs == PositiveHoldings(g) IN SumSeq([i \in 1..Len(hs) |-> hs[i].value])

\* holdingsMap: the last holding of positive value with ticker t, <<>> if none
HoldingsMap(g, t) ==
    LET hs == SelectSeq(PositiveHoldings(g), LAMBDA h : h.ticker = t)
    IN  IF hs = <<>> THEN <<>> ELSE <<hs[Len(hs)]>>

\* modelMap: the last model item with ticker t, <<>> if none
ModelMap(g, t) ==
    LET ms == SelectSeq(g.modelPortfolioDetails, LAMBDA mp : mp.ticker = t)
    IN  IF ms = <<>> THEN <<>> ELSE <<ms[Len(ms)]>>

\* held with a positive value and absent from the model or of weight 0
IsZeroWeight(g, h) ==
    h.value > 0 /\ (ModelMap(g, h.ticker) = <<>> \/ ModelMap(g, h.ticker)[1].weight = 0)

\* Phase 1 candidates left in goalDetails order
ZwProductsUnsorted(g) == SelectSeq(g.goalDetails, LAMBDA h : IsZeroWeight(g, h))

\* Phase 1 candidates, ascending by value
ZwProducts(g) ==
    LET zw == SelectSeq(g.goalDetails, LAMBDA h : IsZeroWeight(g, h))
    IN  SortByKey(zw, [k \in 1..Len(zw) |-> zw[k].value])

\* a check that applies the minimum holding to a full redemption too
checkRedemptionMinimumsNoBypass(redeemAmt, units, isFullRedemption, currentVal, currentUnits, minRedAmt, minRedUnits, minHoldAmt, minHoldUnits) ==
    IF redeemAmt < minRedAmt \/ units < minRedUnits THEN "MIN_REDEMPTION_VIOLATION"
    ELSE IF currentVal - redeemAmt < minHoldAmt \/ currentUnits - units < minHoldUnits
         THEN "MIN_HOLDING_VIOLATION"
    ELSE NoError

\* a check that leaves the units out of the minimum redemption test
checkRedemptionMinimumsAmountOnly(redeemAmt, units, isFullRedemption, currentVal, currentUnits, minRedAmt, minRedUnits, minHoldAmt, minHoldUnits) ==
    IF redeemAmt < minRedAmt THEN "MIN_REDEMPTION_VIOLATION"
    ELSE IF ~isFullRedemption
            /\ (currentVal - redeemAmt < minHoldAmt \/ currentUnits - units < minHoldUnits)
         THEN "MIN_HOLDING_VIOLATION"
    ELSE NoError

checkRedemptionMinimums(redeemAmt, units, isFullRedemption, currentVal, currentUnits, minRedAmt, minRedUnits, minHoldAmt, minHoldUnits) ==
    IF redeemAmt < minRedAmt \/ units < minRedUnits THEN "MIN_REDEMPTION_VIOLATION"
    ELSE IF ~isFullRedemption
            /\ (currentVal - redeemAmt < minHoldAmt \/ currentUnits - units < minHoldUnits)
         THEN "MIN_HOLDING_VIOLATION"
    ELSE NoError

\* the minimums of a Phase 1 product: the model item's when the ticker is in
\* the model, the holding's otherwise
Phase1Minimums(g, h) == IF ModelMap(g, h.ticker) = <<>> THEN h ELSE ModelMap(g, h.ticker)[1]

Phase1Detail(g, zp, remainingBudget) ==
    LET isFullRedemption == ~(zp.value > remainingBudget)
        redeemAmt == IF isFullRedemption THEN zp.value ELSE remainingBudget
        units == DivTruncate(redeemAmt, zp.marketPrice)
        m == Phase1Minimums(g, zp)
    IN  [ticker |-> zp.ticker, direction |-> "SELL", value |-> redeemAmt, units |-> units,
         error |-> checkRedemptionMinimums(redeemAmt, units, isFullRedemption, zp.value, zp.units,
                                           m.minRedemptionAmt, m.minRedemptionUnits,
                                           m.minHoldingAmt, m.minHoldingUnits)]

\* the Phase 1 loop: [remaining, details] after the candidates zw
RECURSIVE Phase1Loop(_, _, _, _)
Phase1Loop(g, zw, remainingBudget, ds) ==
    IF zw = <<>> \/ remainingBudget = 0 THEN [remaining |-> remainingBudget, details |-> ds]
    ELSE LET d == Phase1Detail(g, Head(zw), remainingBudget)
         IN  Phase1Loop(g, Tail(zw), remainingBudget - d.value, Append(ds, d))

Phase1(g) == Phase1Loop(g, ZwProducts(g), g.orderAmount, <<>>)

\* an overweight that is not clamped at 0
OverweightUnclamped(weight, postTotal, currentVal) ==
    Rat(currentVal * WeightDen - weight * postTotal, WeightDen)

\* ideal_i = max(0, V_i - w_i * (vTotal - orderAmount)), as a rational
Overweight(weight, postTotal, currentVal) ==
    Rat(Max(0, currentVal * WeightDen - weight * postTotal), WeightDen)

\* the allocs with the post-trade total of an investment, vTotal + orderAmount
RedeemAllocsWithInvestmentTotal(g) ==
    LET postTotal == RedeemVTotal(g) + g.orderAmount
        kept == SelectSeq(g.modelPortfolioDetails, LAMBDA mp : mp.weight # 0)
    IN  [i \in 1..Len(kept) |->
            LET holding == HoldingsMap(g, kept[i].ticker)
                currentVal == IF holding = <<>> THEN 0 ELSE holding[1].value
            IN  [mp |-> kept[i], holding |-> holding,
                 ideal |-> Overweight(kept[i].weight, postTotal, currentVal)]]

\* the allocs of the model targets that are held
RedeemAllocsHeldOnly(g) ==
    LET postTotal == RedeemVTotal(g) - g.orderAmount
        kept == SelectSeq(g.modelPortfolioDetails,
                          LAMBDA mp : mp.weight # 0 /\ HoldingsMap(g, mp.ticker) # <<>>)
    IN  [i \in 1..Len(kept) |->
            LET holding == HoldingsMap(g, kept[i].ticker)
                currentVal == IF holding = <<>> THEN 0 ELSE holding[1].value
            IN  [mp |-> kept[i], holding |-> holding,
                 ideal |-> Overweight(kept[i].weight, postTotal, currentVal)]]

\* the model targets with weight > 0, in input order, with their overweight
RedeemAllocs(g) ==
    LET postTotal == RedeemVTotal(g) - g.orderAmount
        kept == SelectSeq(g.modelPortfolioDetails, LAMBDA mp : mp.weight # 0)
    IN  [i \in 1..Len(kept) |->
            LET holding == HoldingsMap(g, kept[i].ticker)
                currentVal == IF holding = <<>> THEN 0 ELSE holding[1].value
            IN  [mp |-> kept[i], holding |-> holding,
                 ideal |-> Overweight(kept[i].weight, postTotal, currentVal)]]

Phase2Detail(a, totalIdeal, remainingBudget) ==
    LET redeemAmt == IF ~RatIsZero(totalIdeal) /\ remainingBudget > 0
                     THEN DivMulTruncate(a.ideal, totalIdeal, remainingBudget) ELSE 0
        units == IF redeemAmt > 0 THEN DivTruncate(redeemAmt, a.mp.marketPrice) ELSE 0
    IN  [ticker |-> a.mp.ticker, direction |-> "SELL", value |-> redeemAmt, units |-> units,
         error |-> IF redeemAmt > 0 /\ a.holding # <<>>
                   THEN checkRedemptionMinimums(redeemAmt, units,
                                                redeemAmt >= a.holding[1].value,
                                                a.holding[1].value, a.holding[1].units,
                                                a.mp.minRedemptionAmt, a.mp.minRedemptionUnits,
                                                a.mp.minHoldingAmt, a.mp.minHoldingUnits)
                   ELSE NoError]

\* a Phase 2 that spends the whole order amount, whatever Phase 1 spent
Phase2WithWholeOrder(g, remainingBudget) ==
    LET as == RedeemAllocs(g)
        totalIdeal == RatSumSeq([i \in 1..Len(as) |-> as[i].ideal])
    IN  [i \in 1..Len(as) |-> Phase2Detail(as[i], totalIdeal, g.orderAmount)]

Phase2(g, remainingBudget) ==
    LET as == RedeemAllocs(g)
        totalIdeal == RatSumSeq([i \in 1..Len(as) |-> as[i].ideal])
    IN  [i \in 1..Len(as) |-> Phase2Detail(as[i], totalIdeal, remainingBudget)]

\* a classification that counts an order exactly at the threshold as small
redemptionTypeInclusiveThreshold(orderAmount, vTotal, volatilityBuffer) ==
    IF orderAmount >= vTotal THEN "Full Redemption"
    ELSE IF volatilityBuffer > 0
         THEN IF orderAmount * BufferDen <= vTotal * (BufferDen - volatilityBuffer)
              THEN "Small Redemption" ELSE "Big Redemption"
    ELSE "Partial Redemption"

redemptionType(orderAmount, vTotal, volatilityBuffer) ==
    IF orderAmount >= vTotal THEN "Full Redemption"
    ELSE IF volatilityBuffer > 0
         THEN IF orderAmount * BufferDen < vTotal * (BufferDen - volatilityBuffer)
              THEN "Small Redemption" ELSE "Big Redemption"
    ELSE "Partial Redemption"

----------------------------------------------------------------------------
(* The orders drawn, and the state machine: one order is processed, step by *)
(* step, from pc = "start" to pc = "done".                                  *)

\* the order amounts drawn
OrderAmounts == {MaxOrder - 7, MaxOrder - 3, MaxOrder}

\* the values of the holdings of A, B and D: not held with a value, or held
ValueVectors ==
    {<<a, b, d>> : a \in {0, MaxValue}, b \in {0, MaxValue - 3}, d \in {0, MaxValue - 5}}

BufferSet == {0, 25}

WeightVectors ==
    {w \in [1..Len(ModelTickers) -> WeightSet] : w[1] + w[2] + w[3] <= WeightDen}

Goal(orderType, orderAmount, w, k, v, buffer) ==
    [orderType |-> orderType, orderAmount |-> orderAmount, volatilityBuffer |-> buffer,
     amountDecimalPrecision |-> 2,
     goalDetails |-> [i \in 1..Len(HeldTickers) |-> Holding(HeldTickers[i], v[i], k[i])],
     modelPortfolioDetails |->
         [i \in 1..Len(ModelTickers) |-> ModelItem(ModelTickers[i], w[i], k[i])]]

InvestmentGoals ==
    {g \in {Goal("investment", o, w, k, v, 0) :
                o \in OrderAmounts, w \in WeightVectors,
                k \in [1..3 -> Kinds], v \in ValueVectors} :
        FallbackDivExact(g)}

RedemptionGoals ==
    {Goal("redemption", o, w, k, v, b) :
        o \in OrderAmounts, w \in WeightVectors,
        k \in [1..3 -> Kinds], v \in ValueVectors \ {<<0, 0, 0>>}, b \in BufferSet}

NoRep == [vi |-> 0]

Init ==
    /\ goal \in InvestmentGoals \cup RedemptionGoals
    /\ pc = "start"
    /\ allocs = <<>>
    /\ grossAmounts = <<>>
    /\ rep = NoRep
    /\ result = <<>>
    /\ remaining = 0
    /\ details = <<>>
    /\ transactionType = ""

\* ProcessInvestment up to Pass 1: allocs and truncated gross amounts, or the
\* panic of decimal.Div on a zero totalFeeAdjusted
ComputeGross ==
    /\ pc = "start"
    /\ goal.orderType = "investment"
    /\ allocs' = InvestAllocs(goal)
    /\ IF TotalFeeAdjustedIsZero(InvestAllocs(goal), goal.amountDecimalPrecision)
       THEN grossAmounts' = grossAmounts /\ pc' = "panic"
       ELSE /\ grossAmounts' = InitialGross(InvestAllocs(goal), goal.orderAmount,
                                            goal.amountDecimalPrecision)
            /\ pc' = "repair"
    /\ UNCHANGED <<goal, rep, result, remaining, details, transactionType>>

\* repairViolations up to its loop, with its two early returns
RepairBegin ==
    /\ pc = "repair"
    /\ rep' = RepairStart(allocs, grossAmounts, goal.amountDecimalPrecision)
    /\ IF rep'.returned
       THEN result' = grossAmounts /\ pc' = "emit"
       ELSE result' = result /\ pc' = "tiers"
    /\ UNCHANGED <<goal, allocs, grossAmounts, remaining, details, transactionType>>

\* one iteration of the loop over the violations
RepairTier ==
    /\ pc = "tiers"
    /\ rep.vi <= Len(rep.violations)
    /\ rep' = TierStep(rep)
    /\ UNCHANGED <<goal, pc, allocs, grossAmounts, result, remaining, details, transactionType>>

\* the end of repairViolations: redistribution or refund
RepairEnd ==
    /\ pc = "tiers"
    /\ rep.vi > Len(rep.violations)
    /\ result' = RepairFinish(rep)
    /\ pc' = "emit"
    /\ UNCHANGED <<goal, allocs, grossAmounts, rep, remaining, details, transactionType>>

\* ProcessInvestment Pass 2
EmitInvestment ==
    /\ pc = "emit"
    /\ details' = InvestmentDetails(allocs, result)
    /\ transactionType' = goal.orderType
    /\ pc' = "done"
    /\ UNCHANGED <<goal, allocs, grossAmounts, rep, result, remaining>>

\* ProcessRedemption Phase 1
RedeemPhase1 ==
    /\ pc = "start"
    /\ goal.orderType = "redemption"
    /\ details' = Phase1(goal).details
    /\ remaining' = Phase1(goal).remaining
    /\ pc' = "phase2"
    /\ UNCHANGED <<goal, allocs, grossAmounts, rep, result, transactionType>>

\* ProcessRedemption Phase 2 and the transaction type
RedeemPhase2 ==
    /\ pc = "phase2"
    /\ allocs' = RedeemAllocs(goal)
    /\ details' = details \o Phase2(goal, remaining)
    /\ transactionType' = redemptionType(goal.orderAmount, RedeemVTotal(goal), goal.volatilityBuffer)
    /\ pc' = "done"
    /\ UNCHANGED <<goal, grossAmounts, rep, result, remaining>>

Next ==
    \/ ComputeGross
    \/ RepairBegin
    \/ RepairTier
    \/ RepairEnd
    \/ EmitInvestment
    \/ RedeemPhase1
    \/ RedeemPhase2

Spec == Init /\ [][Next]_vars

----------------------------------------------------------------------------
(* The orders of the worked scenarios, in hundredths (amountPrec = 2) *)

\* a product with a minimum initial investment of 50.00
WithMinimumFifty == [Plain EXCEPT !.minInitialInvestmentAmt = 5000]

\* a product with a minimum initial investment of 30.00
WithMinimumThirty == [Plain EXCEPT !.minInitialInvestmentAmt = 3000]

ScenarioKinds == {Plain, WithMinimumFifty, WithMinimumThirty}

ScenarioWeightVectors ==
    {w \in [1..Len(ModelTickers) -> {0, 1, 4, 6}] :
        w[1] + w[2] + w[3] > 0 /\ w[1] + w[2] + w[3] <= WeightDen}

\* investment orders of 90.00 and 100.00 with nothing held
ScenarioInvestmentGoals ==
    {Goal("investment", o, w, k, <<0, 0, 0>>, 0) :
        o \in {9000, 10000}, w \in ScenarioWeightVectors, k \in [1..3 -> ScenarioKinds]}

\* redemption orders around 97% of a total of 100.00, on holdings of 50.00
ScenarioRedemptionGoals ==
    {Goal("redemption", o, w, <<Plain, Plain, Plain>>, v, b) :
        o \in {7500, 9699, 9700, 10000}, w \in ScenarioWeightVectors,
        v \in [1..3 -> {0, 5000}] \ {<<0, 0, 0>>}, b \in {0, 3}}

ScenarioInit ==
    /\ goal \in ScenarioInvestmentGoals \cup ScenarioRedemptionGoals
    /\ pc = "start"
    /\ allocs = <<>>
    /\ grossAmounts = <<>>
    /\ rep = NoRep
    /\ result = <<>>
    /\ remaining = 0
    /\ details = <<>>
    /\ transactionType = ""

ScenarioSpec == ScenarioInit /\ [][Next]_vars

----------------------------------------------------------------------------
(* Orders at an amount precision above DivisionPrecision *)

\* a product with a minimum initial investment of 6 minimal amount units
\* ("0.00000000000000006" at amountDecimalPrecision 17)
WithFineMinimum == [Plain EXCEPT !.minInitialInvestmentAmt = 6]

\* investment orders of a few minimal amount units at amountDecimalPrecision
\* 17 (4 is "0.00000000000000004"), nothing held, no fee;
\* unitDecimalPrecision 0 and a market price of one minimal amount unit, so
\* that gross.Div(price) is a whole number
FinePrecisionGoals ==
    {[Goal("investment", o, w, k, <<0, 0, 0>>, 0)
         EXCEPT !.amountDecimalPrecision = 17] :
        o \in {4, 8, 12, 30}, w \in WeightVectors \ {<<0, 0, 0>>},
        k \in [1..3 -> {Plain, WithFineMinimum}]}

PrecisionInit ==
    /\ goal \in ScenarioInvestmentGoals \cup ScenarioRedemptionGoals \cup FinePrecisionGoals
    /\ pc = "start"
    /\ allocs = <<>>
    /\ grossAmounts = <<>>
    /\ rep = NoRep
    /\ result = <<>>
    /\ remaining = 0
    /\ details = <<>>
    /\ transactionType = ""

PrecisionSpec == PrecisionInit /\ [][Next]_vars

----------------------------------------------------------------------------
(* The small investment orders together with the orders of the scenarios *)

CombinedInit ==
    /\ goal \in InvestmentGoals \cup ScenarioInvestmentGoals \cup ScenarioRedemptionGoals
    /\ pc = "start"
    /\ allocs = <<>>
    /\ grossAmounts = <<>>
    /\ rep = NoRep
    /\ result = <<>>
    /\ remaining = 0
    /\ details = <<>>
    /\ transactionType = ""

CombinedSpec == CombinedInit /\ [][Next]_vars

----------------------------------------------------------------------------
(* Orders for products whose reqGross is rounded up *)

\* a product with a fee of 0.2: requiredNet / 0.8 is not a whole number of
\* minimal units for the initial minimums (3 / 0.8 = 3.75, reqGross 4) nor
\* for the top-up minimum (5 / 0.8 = 6.25, reqGross 7)
WithFeeOneFifth ==
    [Plain EXCEPT !.transactionFee = 2,
                  !.minInitialInvestmentAmt = 2, !.minInitialInvestmentUnits = 3,
                  !.minTopupAmt = 5, !.minTopupUnits = 0]

RoundedUpGoals ==
    {g \in {Goal("investment", o, w, k, v, 0) :
                o \in OrderAmounts, w \in WeightVectors,
                k \in [1..3 -> {Plain, WithFeeOneFifth}],
                v \in {<<0, 0, 0>>, <<3, 0, 0>>}} :
        FallbackDivExact(g)}

RoundedUpInit ==
    /\ goal \in RoundedUpGoals \cup ScenarioRedemptionGoals
    /\ pc = "start"
    /\ allocs = <<>>
    /\ grossAmounts = <<>>
    /\ rep = NoRep
    /\ result = <<>>
    /\ remaining = 0
    /\ details = <<>>
    /\ transactionType = ""

RoundedUpSpec == RoundedUpInit /\ [][Next]_vars

----------------------------------------------------------------------------
(* Redemption orders of whole currency units at amountDecimalPrecision 16 *)
(*                                                                         *)
(* In the orders of this section the minimal amount unit is 10^-16, the    *)
(* place at which decimal.Div rounds, and every amount of the input is a   *)
(* whole number of currency units, written as that number (2 is "2", that  *)
(* is 2 * 10^16 minimal units).  The amount Phase 2 computes is the pair   *)
(* <<exact, deviation>>: exact currency units, a rational, plus deviation  *)
(* minimal units, a rational.  unitDecimalPrecision is 0 and every price   *)
(* is one currency unit.                                                   *)

\* x.Div(y) minus x/y, in units of 10^-DivisionPrecision, for q = x/y >= 0
DivDeviation(q) ==
    LET rem == ShiftRem(q[1] % q[2], q[2], DivisionPrecision)
    IN  IF 2 * rem >= q[2] THEN Rat(q[2] - rem, q[2]) ELSE Rat(-rem, q[2])

\* x.Div(y).Mul(c).Truncate(amountPrec) for c a whole number of currency
\* units: the product of the rounded quotient and c has 16 decimal places,
\* Truncate(16) keeps it whole
WholeUnitDivMul(x, y, c) ==
    LET q == RatQuot(x, y)
        deviation == DivDeviation(q)
    IN  <<Rat(q[1] * c, q[2]), Rat(deviation[1] * c, deviation[2])>>

\* Truncate(0) of the amount <<exact, deviation>>, in currency units
WholeUnitFloor(amt) ==
    IF amt[1][1] % amt[1][2] = 0 /\ amt[2][1] < 0
    THEN (amt[1][1] \div amt[1][2]) - 1
    ELSE amt[1][1] \div amt[1][2]

\* the Phase 2 allocation of one product; the minimums of these orders are
\* all zero, so checkRedemptionMinimums finds nothing
WholeUnitPhase2Detail(a, totalIdeal, remainingBudget) ==
    LET redeemAmt == IF ~RatIsZero(totalIdeal) /\ remainingBudget > 0
                     THEN WholeUnitDivMul(a.ideal, totalIdeal, remainingBudget)
                     ELSE <<<<0, 1>>, <<0, 1>>>>
        units == IF redeemAmt[1][1] > 0
                 THEN WholeUnitFloor(redeemAmt) \div a.mp.marketPrice ELSE 0
    IN  [ticker |-> a.mp.ticker, direction |-> "SELL", value |-> redeemAmt, units |-> units,
         error |-> NoError]

WholeUnitPhase2(g, remainingBudget) ==
    LET as == RedeemAllocs(g)
        totalIdeal == RatSumSeq([i \in 1..Len(as) |-> as[i].ideal])
    IN  [i \in 1..Len(as) |-> WholeUnitPhase2Detail(as[i], totalIdeal, remainingBudget)]

\* redemption orders of 1 to 5 currency units on holdings of 0 to 3 currency
\* units, no minimum, no buffer
WholeUnitGoals ==
    {[Goal("redemption", o, w, <<Plain, Plain, Plain>>, v, 0)
         EXCEPT !.amountDecimalPrecision = DivisionPrecision] :
        o \in {1, 2, 3, 5}, w \in WeightVectors,
        v \in [1..3 -> {0, 1, 2, 3}] \ {<<0, 0, 0>>}}

WholeUnitInit ==
    /\ goal \in WholeUnitGoals
    /\ pc = "start"
    /\ allocs = <<>>
    /\ grossAmounts = <<>>
    /\ rep = NoRep
    /\ result = <<>>
    /\ remaining = 0
    /\ details = <<>>
    /\ transactionType = ""

\* ProcessRedemption Phase 2 and the transaction type
WholeUnitRedeemPhase2 ==
    /\ pc = "phase2"
    /\ allocs' = RedeemAllocs(goal)
    /\ details' = details \o WholeUnitPhase2(goal, remaining)
    /\ transactionType' = redemptionType(goal.orderAmount, RedeemVTotal(goal), goal.volatilityBuffer)
    /\ pc' = "done"
    /\ UNCHANGED <<goal, grossAmounts, rep, result, remaining>>

WholeUnitNext ==
    \/ RedeemPhase1
    \/ WholeUnitRedeemPhase2

WholeUnitSpec == WholeUnitInit /\ [][WholeUnitNext]_vars

----------------------------------------------------------------------------
(* Properties *)

IsInvestment == goal.orderType = "investment"

IsRedemption == goal.orderType = "redemption"

\* the repair pass has returned (result holds the repaired gross amounts)
Repaired == IsInvestment /\ pc \in {"emit", "done"}

DetailValues == [k \in 1..Len(details) |-> details[k].value]

RatLess(x, y) == x[1] * y[2] < y[1] * x[2]

\* the model weights sum to 1
WeightsSumToOne ==
    SumSeq([i \in 1..Len(goal.modelPortfolioDetails) |->
               goal.modelPortfolioDetails[i].weight]) = WeightDen

\* C1: for every investment order with at least one model product of weight > 0,
\* the BUY amounts sum to the order amount exactly, both the truncated gross
\* amounts before repairViolations and the emitted amounts after it (stated
\* here for the models whose weights sum to 1).
C1_InvestmentSumExact ==
    (IsInvestment /\ pc = "done" /\ allocs # <<>> /\ WeightsSumToOne) =>
        /\ SumSeq(grossAmounts) = goal.orderAmount
        /\ SumSeq(DetailValues) = goal.orderAmount

\* C2: for every redemption order whose amount does not exceed the total value
\* of the holdings, the SELL amounts of Phase 1 and Phase 2 sum to the order
\* amount exactly (stated here for the models whose weights sum to 1).
C2_RedemptionSumExact ==
    (IsRedemption /\ pc = "done" /\ goal.orderAmount <= RedeemVTotal(goal) /\ WeightsSumToOne) =>
        SumSeq(DetailValues) = goal.orderAmount

AllCured ==
    \A k \in 1..Len(rep.violations) :
        result[rep.violations[k].idx] >= rep.items[rep.violations[k].idx].reqGross

WithIncreasedHolding(g, h, d) ==
    [g EXCEPT !.goalDetails = SetAt(g.goalDetails, h, [g.goalDetails[h] EXCEPT !.value = @ + d])]

\* the shortfall target of the model target with ticker t, <<>> if it has none
ShortfallOf(g, t) ==
    LET as == SelectSeq(ShortfallAllocs(g), LAMBDA a : a.mp.ticker = t)
    IN  IF as = <<>> THEN <<>> ELSE <<as[1].ideal>>

\* the holdings (by index) of the products the model gives a weight > 0
ModeledHoldings ==
    {h \in 1..Len(goal.goalDetails) : ShortfallOf(goal, goal.goalDetails[h].ticker) # <<>>}

WeightOf(g, t) == ModelMap(g, t)[1].weight

\* C7 (as claimed): increasing one modeled holding's value, all else equal,
\* strictly decreases that product's shortfall target or leaves it at 0, for
\* every weight in (0, 1], weight 1 included.
C7_ShortfallStrictlyDecreases ==
    (IsInvestment /\ pc = "repair") =>
        \A h \in ModeledHoldings : \A d \in 1..MaxIncrease :
            LET t == goal.goalDetails[h].ticker
                before == ShortfallOf(goal, t)[1]
                after == ShortfallOf(WithIncreasedHolding(goal, h, d), t)[1]
            IN  RatLess(after, before) \/ (RatIsZero(before) /\ RatIsZero(after))

\* C7 (amended): for a weight in (0, 1) the shortfall target strictly decreases
\* or stays at 0; for weight 1 it is unchanged.
C7_ShortfallMonotone ==
    (IsInvestment /\ pc = "repair") =>
        \A h \in ModeledHoldings : \A d \in 1..MaxIncrease :
            LET t == goal.goalDetails[h].ticker
                before == ShortfallOf(goal, t)[1]
                after == ShortfallOf(WithIncreasedHolding(goal, h, d), t)[1]
            IN  IF WeightOf(goal, t) < WeightDen
                THEN RatLess(after, before) \/ (RatIsZero(before) /\ RatIsZero(after))
                ELSE after = before

\* C7 witness: a held product of weight below 1 with a positive shortfall, and
\* in the same order type a state of ComputeGross.
C7_Witness ==
    /\ IsInvestment
    /\ pc = "repair"
    /\ \E h \in ModeledHoldings :
          /\ goal.goalDetails[h].value > 0
          /\ WeightOf(goal, goal.goalDetails[h].ticker) < WeightDen
          /\ ~RatIsZero(ShortfallOf(goal, goal.goalDetails[h].ticker)[1])

\* detail k redeems the entire holding of its product
RedeemsEntireHolding(k) ==
    /\ HoldingsMap(goal, details[k].ticker) # <<>>
    /\ details[k].value >= HoldingsMap(goal, details[k].ticker)[1].value

\* C8: an allocation that redeems a product's entire holding never carries
\* MIN_HOLDING_VIOLATION, whatever the holding minimums are.
C8_FullRedemptionBypass ==
    (IsRedemption /\ pc = "done") =>
        \A k \in 1..Len(details) :
            RedeemsEntireHolding(k) => details[k].error # "MIN_HOLDING_VIOLATION"

\* the minimum holding amount checked for detail k
HoldingMinimumOf(k) ==
    IF ModelMap(goal, details[k].ticker) = <<>>
    THEN HoldingsMap(goal, details[k].ticker)[1].minHoldingAmt
    ELSE ModelMap(goal, details[k].ticker)[1].minHoldingAmt

\* C8 witness: a Phase 2 allocation redeems an entire holding whose product
\* has a positive minimum holding amount, and carries no flag.
C8_Witness ==
    /\ IsRedemption
    /\ pc = "done"
    /\ \E k \in 1..Len(details) :
          /\ RedeemsEntireHolding(k)
          /\ ModelMap(goal, details[k].ticker) # <<>>
          /\ WeightOf(goal, details[k].ticker) > 0
          /\ HoldingMinimumOf(k) > 0
          /\ details[k].error = NoError

\* the tickers of the model targets with weight > 0, in input order
PositiveWeightTickers ==
    LET kept == SelectSeq(goal.modelPortfolioDetails, LAMBDA mp : mp.weight > 0)
    IN  [i \in 1..Len(kept) |-> kept[i].ticker]

\* C9: ProcessInvestment emits exactly one BUY allocation per model target of
\* weight > 0, in model input order, none for a target of weight 0 or a held
\* product absent from the model; the repair removes or reorders no entry.
C9_OneBuyPerPositiveWeight ==
    /\ (IsInvestment /\ pc = "done") =>
          /\ [k \in 1..Len(details) |-> details[k].ticker] = PositiveWeightTickers
          /\ \A k \in 1..Len(details) : details[k].direction = "BUY"
    /\ Repaired =>
          /\ Len(result) = Len(PositiveWeightTickers)
          /\ [i \in 1..Len(allocs) |-> allocs[i].mp.ticker] = PositiveWeightTickers

\* C9 witness: an emitted order with a target of weight 0, a held product
\* absent from the model, and a product zeroed by the repair.
C9_Witness ==
    /\ IsInvestment
    /\ pc = "done"
    /\ \E i \in 1..Len(goal.modelPortfolioDetails) : goal.modelPortfolioDetails[i].weight = 0
    /\ HoldingsMapValue(goal, "D") > 0
    /\ ~rep.returned
    /\ rep.zeroedSet # {}
    /\ \E k \in 1..Len(details) : details[k].value = 0

\* the flag C10 describes for allocation k: the net amount gross * (1 - fee)
\* and the units it buys, against the initial-investment minimums when the
\* product's current value is zero and against the top-up minimums otherwise
ExpectedFlag(k) ==
    LET mp == allocs[k].mp
        held == HoldingsMapValue(goal, mp.ticker) # 0
        minAmt == IF held THEN mp.minTopupAmt ELSE mp.minInitialInvestmentAmt
        minUnits == IF held THEN mp.minTopupUnits ELSE mp.minInitialInvestmentUnits
        netTimesFeeDen == result[k] * (FeeDen - mp.transactionFee)
        netUnits == netTimesFeeDen \div (FeeDen * mp.marketPrice)
    IN  IF result[k] > 0 /\ (netTimesFeeDen < minAmt * FeeDen \/ netUnits < minUnits)
        THEN (IF held THEN "MIN_TOPUP_VIOLATION" ELSE "MIN_INVESTMENT_VIOLATION")
        ELSE NoError

ViolationCode(i) ==
    IF allocs[i].current = 0 THEN "MIN_INVESTMENT_VIOLATION" ELSE "MIN_TOPUP_VIOLATION"

ForcedExitTickers ==
    {goal.goalDetails[h].ticker : h \in {x \in 1..Len(goal.goalDetails) :
        /\ goal.goalDetails[x].value > 0
        /\ \A i \in 1..Len(goal.modelPortfolioDetails) :
              goal.modelPortfolioDetails[i].ticker = goal.goalDetails[x].ticker
                  => goal.modelPortfolioDetails[i].weight = 0}}

\* the current value of the holding with ticker t
HeldValue(t) == HoldingsMap(goal, t)[1].value

\* the budget left before Phase 1 entry k
BudgetBefore(k) == goal.orderAmount - SumSeq(SubSeq(DetailValues, 1, k - 1))

\* C13: Phase 1 redeems the forced-exit candidates in ascending order of
\* current value: a candidate whose value is within the remaining budget is
\* redeemed in full, the first one whose value exceeds it is redeemed for the
\* remaining budget and is the last Phase 1 entry, and a candidate gets no
\* entry only when the budget is used up by the entries before it.
C13_PhaseOneGreedy ==
    (IsRedemption /\ pc = "phase2") =>
        /\ \A k \in 1..Len(details) :
              /\ details[k].ticker \in ForcedExitTickers
              /\ \A j \in 1..Len(details) : details[j].ticker = details[k].ticker => j = k
              /\ BudgetBefore(k) > 0
              /\ details[k].value =
                    IF HeldValue(details[k].ticker) <= BudgetBefore(k)
                    THEN HeldValue(details[k].ticker) ELSE BudgetBefore(k)
              /\ details[k].value < HeldValue(details[k].ticker) => k = Len(details)
              /\ k < Len(details) =>
                    HeldValue(details[k].ticker) <= HeldValue(details[k + 1].ticker)
        /\ remaining = goal.orderAmount - SumSeq(DetailValues)
        /\ \A t \in ForcedExitTickers :
              (\A k \in 1..Len(details) : details[k].ticker # t) =>
                  /\ remaining = 0
                  /\ \A k \in 1..Len(details) : HeldValue(details[k].ticker) <= HeldValue(t)

\* C13 witness: three candidates, the first redeemed in full, the second
\* partially, the third with no entry.
C13_Witness ==
    /\ IsRedemption
    /\ pc = "phase2"
    /\ Cardinality(ForcedExitTickers) = 3
    /\ Len(details) = 2
    /\ details[1].value = HeldValue(details[1].ticker)
    /\ details[2].value < HeldValue(details[2].ticker)
    /\ details[2].value > 0

\* detail k is a Phase 2 entry: its ticker is a model target of weight > 0
IsPhaseTwoEntry(k) ==
    \E i \in 1..Len(goal.modelPortfolioDetails) :
        /\ goal.modelPortfolioDetails[i].ticker = details[k].ticker
        /\ goal.modelPortfolioDetails[i].weight > 0

\* C14: whenever a Phase 2 product is emitted with a positive SELL amount,
\* every held product absent from the model or of weight 0 has a Phase 1
\* entry, before the Phase 2 entries, with its full current value.
C14_ForcedExitsFirst ==
    (IsRedemption /\ pc = "done") =>
        \A k \in 1..Len(details) :
            (IsPhaseTwoEntry(k) /\ details[k].value > 0) =>
                \A t \in ForcedExitTickers :
                    \E j \in 1..(k - 1) :
                        /\ details[j].ticker = t
                        /\ ~IsPhaseTwoEntry(j)
                        /\ details[j].value = HeldValue(t)

\* C14 witness: two forced exits are redeemed in full and a Phase 2 product
\* is sold for a positive amount.
C14_Witness ==
    /\ IsRedemption
    /\ pc = "done"
    /\ Cardinality(ForcedExitTickers) = 2
    /\ \E k \in 1..Len(details) : IsPhaseTwoEntry(k) /\ details[k].value > 0

\* the sum of the Phase 2 ideals
IdealSum == RatSumSeq([i \in 1..Len(allocs) |-> allocs[i].ideal])

\* no Phase 2 product is below its target under the post-redemption total
NoneUnderweight ==
    \A i \in 1..Len(allocs) :
        LET currentVal == IF allocs[i].holding = <<>> THEN 0 ELSE allocs[i].holding[1].value
        IN  currentVal * WeightDen >= allocs[i].mp.weight * (RedeemVTotal(goal) - goal.orderAmount)

\* Phase 1 redeemed every forced exit in full
ForcedExitsLiquidated ==
    \A t \in ForcedExitTickers :
        \E k \in 1..Len(details) : details[k].ticker = t /\ details[k].value = HeldValue(t)

PhaseOneCount == Len(details) - Len(PositiveWeightTickers)

\* C16: the output of ProcessRedemption is the Phase 1 allocations, in
\* ascending order of holding value, followed by one allocation for every
\* model target of weight > 0 (held or not, amount zero or not) in model
\* input order; no ticker of weight 0 is among the Phase 2 entries.
C16_RedemptionOutputOrder ==
    (IsRedemption /\ pc = "done") =>
        /\ PhaseOneCount >= 0
        /\ \A k \in 1..PhaseOneCount :
              /\ details[k].ticker \in ForcedExitTickers
              /\ k < PhaseOneCount =>
                    HeldValue(details[k].ticker) <= HeldValue(details[k + 1].ticker)
        /\ [i \in 1..Len(PositiveWeightTickers) |-> details[PhaseOneCount + i].ticker]
              = PositiveWeightTickers
        /\ \A k \in 1..Len(details) : details[k].direction = "SELL"

\* C16 witness: two Phase 1 entries, then two Phase 2 entries, one for a
\* product not held with a zero amount and one with a positive amount.
C16_Witness ==
    /\ IsRedemption
    /\ pc = "done"
    /\ PhaseOneCount = 2
    /\ Len(PositiveWeightTickers) = 2
    /\ \E k \in (PhaseOneCount + 1)..Len(details) :
          HoldingsMap(goal, details[k].ticker) = <<>> /\ details[k].value = 0
    /\ \E k \in (PhaseOneCount + 1)..Len(details) : details[k].value > 0

\* the minimums of the product of detail k: the model item's when the ticker
\* is in the model, the holding's otherwise
ProductMinimums(k) ==
    IF \E i \in 1..Len(goal.modelPortfolioDetails) :
           goal.modelPortfolioDetails[i].ticker = details[k].ticker
    THEN ModelMap(goal, details[k].ticker)[1]
    ELSE HoldingsMap(goal, details[k].ticker)[1]

\* the flag C19 describes for a positive allocation k of a held product
ExpectedRedemptionFlag(k) ==
    LET h == HoldingsMap(goal, details[k].ticker)[1]
        m == ProductMinimums(k)
    IN  IF details[k].value < m.minRedemptionAmt \/ details[k].units < m.minRedemptionUnits
        THEN "MIN_REDEMPTION_VIOLATION"
        ELSE IF /\ details[k].value < h.value
                /\ \/ h.value - details[k].value < m.minHoldingAmt
                   \/ h.units - details[k].units < m.minHoldingUnits
             THEN "MIN_HOLDING_VIOLATION"
        ELSE NoError

\* C19: in both phases a positive allocation of a held product carries
\* MIN_REDEMPTION_VIOLATION when its amount or its units are below the
\* redemption minimums, else MIN_HOLDING_VIOLATION when the redemption is
\* partial and the remaining value or units are below the holding minimums,
\* else no violation; an allocation of zero or of a product not held carries
\* none.
C19_RedemptionMinimums ==
    (IsRedemption /\ pc = "done") =>
        \A k \in 1..Len(details) :
            IF details[k].value > 0 /\ HoldingsMap(goal, details[k].ticker) # <<>>
            THEN details[k].error = ExpectedRedemptionFlag(k)
            ELSE details[k].error = NoError

\* C19 witness: a Phase 1 entry and a Phase 2 entry are flagged, one with each
\* code, the minimum redemption one on its units.
C19_Witness ==
    /\ IsRedemption
    /\ pc = "done"
    /\ \E k \in 1..Len(details) :
          /\ details[k].error = "MIN_REDEMPTION_VIOLATION"
          /\ details[k].value >= ProductMinimums(k).minRedemptionAmt
    /\ \E k \in 1..Len(details) : details[k].error = "MIN_HOLDING_VIOLATION"
    /\ \E j, k \in 1..Len(details) :
          /\ ~IsPhaseTwoEntry(j) /\ details[j].error # NoError
          /\ IsPhaseTwoEntry(k) /\ details[k].error # NoError

\* the total value held, over every holding of the order
TotalHeldValue == SumSeq([i \in 1..Len(goal.goalDetails) |-> goal.goalDetails[i].value])

\* C12: a finished redemption is labelled "Full Redemption" when the order
\* amount is at least the total held value; below the total, with a buffer
\* above zero, "Small Redemption" when the order amount is below
\* total * (1 - buffer) and "Big Redemption" from that threshold on; below the
\* total with a buffer of zero, "Partial Redemption". In particular with a
\* total of 100.00 and a buffer of 0.03 an order of 97.00 is big and an order
\* of 96.99 is small.
C12_RedemptionClassification ==
    (IsRedemption /\ pc = "done") =>
        LET order == goal.orderAmount
            total == TotalHeldValue
            buffer == goal.volatilityBuffer
            belowThreshold == order * BufferDen < total * (BufferDen - buffer)
        IN  /\ order >= total => transactionType = "Full Redemption"
            /\ (order < total /\ buffer > 0 /\ belowThreshold) =>
                   transactionType = "Small Redemption"
            /\ (order < total /\ buffer > 0 /\ ~belowThreshold) =>
                   transactionType = "Big Redemption"
            /\ (order < total /\ buffer = 0) => transactionType = "Partial Redemption"
            /\ (total = 10000 /\ buffer = 3 /\ order = 9700) =>
                   transactionType = "Big Redemption"
            /\ (total = 10000 /\ buffer = 3 /\ order = 9699) =>
                   transactionType = "Small Redemption"

\* an order of 97.00 on a total of 100.00 with a buffer of 0.03, exactly at
\* the threshold, has been labelled big
C12_Witness ==
    /\ IsRedemption /\ pc = "done"
    /\ TotalHeldValue = 10000 /\ goal.volatilityBuffer = 3 /\ goal.orderAmount = 9700
    /\ transactionType = "Big Redemption"

\* product i of the order is the one violation of Scenario C: not held, no
\* fee, a truncated gross of 40.00 against a required 50.00, no other product
\* in violation
IsScenarioCViolation(i) ==
    /\ grossAmounts[i] = 4000
    /\ allocs[i].current = 0
    /\ allocs[i].mp.transactionFee = 0
    /\ allocs[i].mp.minInitialInvestmentAmt = 5000
    /\ ReqGross(allocs[i], goal.amountDecimalPrecision) = 5000
    /\ \A j \in 1..Len(grossAmounts) :
           j # i => ~(grossAmounts[j] # 0 /\ ReqGross(allocs[j], goal.amountDecimalPrecision) # 0
                        /\ grossAmounts[j] < ReqGross(allocs[j], goal.amountDecimalPrecision))

\* the safe slack the products other than i hold: gross above the required
\* gross, over the products with a positive gross
SafeSlackElsewhere(i) ==
    SumSeq([j \in 1..Len(grossAmounts) |->
               IF j # i /\ grossAmounts[j] # 0
               THEN grossAmounts[j] - ReqGross(allocs[j], goal.amountDecimalPrecision) ELSE 0])

\* C17 (Scenario C): when one product alone violates, with a gross of 40.00
\* against a required 50.00, and the other products hold at least 10.00 of
\* safe slack, the repair sets it to exactly 50.00, reduces the other
\* products by exactly 10.00 in total (none is increased), zeroes out no
\* product, and leaves the sum unchanged.
C17_ScenarioC ==
    Repaired =>
        \A i \in 1..Len(grossAmounts) :
            (IsScenarioCViolation(i) /\ SafeSlackElsewhere(i) >= 1000) =>
                /\ result[i] = 5000
                /\ \A j \in 1..Len(result) : j # i => result[j] <= grossAmounts[j]
                /\ SumSeq([j \in 1..Len(result) |->
                              IF j # i THEN grossAmounts[j] - result[j] ELSE 0]) = 1000
                /\ rep.zeroedSet = {}
                /\ SumSeq(result) = SumSeq(grossAmounts)

\* the repair has returned on an order of 100.00 where the violation of
\* Scenario C is funded by a product holding exactly 10.00 of safe slack
C17_Witness ==
    /\ Repaired
    /\ goal.orderAmount = 10000
    /\ \E i \in 1..Len(grossAmounts) :
           /\ IsScenarioCViolation(i)
           /\ SafeSlackElsewhere(i) = 1000
           /\ result[i] = 5000

\* the model targets of the order with a weight above zero, in model order
PositiveWeightItems == SelectSeq(goal.modelPortfolioDetails, LAMBDA mp : mp.weight # 0)

\* the order of Scenario A: 100.00 over two products of weights first and
\* second, nothing held, no fee and no minimum
IsScenarioA(first, second) ==
    /\ IsInvestment
    /\ goal.orderAmount = 10000
    /\ \A h \in 1..Len(goal.goalDetails) : goal.goalDetails[h].value = 0
    /\ Len(PositiveWeightItems) = 2
    /\ PositiveWeightItems[1].weight = first /\ PositiveWeightItems[2].weight = second
    /\ \A i \in 1..2 :
           PositiveWeightItems[i] =
               ModelItem(PositiveWeightItems[i].ticker, PositiveWeightItems[i].weight, Plain)

\* C18 (Scenario A): an investment order of 100 over two modeled products of
\* weights 0.6 and 0.4, nothing held, no fees, no minimums, amounts to two
\* decimals, gives the gross amounts 60.00 and 40.00 in model order (and
\* 40.00 and 60.00 when the weights come as 0.4 and 0.6), as computed by
\* Pass 1, as left by the repair and as emitted.
C18_ScenarioA ==
    pc = "done" =>
        /\ IsScenarioA(6, 4) =>
               /\ grossAmounts = <<6000, 4000>>
               /\ result = <<6000, 4000>>
               /\ DetailValues = <<6000, 4000>>
               /\ \A i \in 1..2 : details[i].ticker = PositiveWeightItems[i].ticker
        /\ IsScenarioA(4, 6) =>
               /\ grossAmounts = <<4000, 6000>>
               /\ result = <<4000, 6000>>
               /\ DetailValues = <<4000, 6000>>
               /\ \A i \in 1..2 : details[i].ticker = PositiveWeightItems[i].ticker

\* the order of Scenario A has been processed
C18_Witness ==
    /\ pc = "done"
    /\ IsScenarioA(6, 4)
    /\ DetailValues = <<6000, 4000>>

\* the sequence s, last element first
ReverseSeq(s) == [i \in 1..Len(s) |-> s[Len(s) + 1 - i]]

\* the sorted sequence s with every run of equal keys in the opposite order
WithTiesReversed(s, keys) == SortByKey(ReverseSeq(s), ReverseSeq(keys))

\* the gross amounts the repair returns when the tied violations and the tied
\* zero-out candidates are taken in the opposite order
RepairedWithTiesReversed ==
    LET r == RepairStart(allocs, grossAmounts, goal.amountDecimalPrecision)
        violations == WithTiesReversed(r.violations,
                                       [k \in 1..Len(r.violations) |-> r.violations[k].bump])
        zeroable == WithTiesReversed(r.zeroableSorted,
                                     [k \in 1..Len(r.zeroableSorted) |->
                                         r.zeroableSorted[k].reqGross])
    IN  IF r.returned THEN grossAmounts
        ELSE RepairFinish(TierLoop([r EXCEPT !.violations = violations,
                                             !.zeroableSorted = zeroable]))

\* the Phase 1 allocations when the forced exits of equal value are taken in
\* the opposite order
PhaseOneWithTiesReversed ==
    LET zw == ZwProducts(goal)
    IN  Phase1Loop(goal, WithTiesReversed(zw, [k \in 1..Len(zw) |-> zw[k].value]),
                   goal.orderAmount, <<>>).details

\* the position of the holding with ticker t in the order's holdings
HoldingIndex(t) == CHOOSE h \in 1..Len(goal.goalDetails) : goal.goalDetails[h].ticker = t

\* violation k of the repair has been cured: its amount was raised
IsCured(k) == result[rep.violations[k].idx] > grossAmounts[rep.violations[k].idx]

C21_Totality ==
    /\ pc # "panic"
    /\ pc \in {"start", "repair", "tiers", "emit", "phase2", "done"}
    /\ pc = "start" => goal.orderType \in {"investment", "redemption"}
    /\ pc = "tiers" => rep.vi \in 1..(Len(rep.violations) + 1)

\* the value held of ticker t, 0 when t is not held
ValueHeldOf(t) ==
    SumSeq([h \in 1..Len(goal.goalDetails) |->
               IF goal.goalDetails[h].ticker = t THEN goal.goalDetails[h].value ELSE 0])

\* every model target of weight > 0 is at or above its target after the
\* order: w * (total held + orderAmount) <= value held
AllAtOrAboveTarget ==
    \A i \in 1..Len(goal.modelPortfolioDetails) :
        LET mp == goal.modelPortfolioDetails[i]
        IN  mp.weight > 0 =>
                mp.weight * (TotalHeldValue + goal.orderAmount)
                    <= ValueHeldOf(mp.ticker) * WeightDen

\* the sum of the positive model weights (over WeightDen)
SumOfPositiveWeights ==
    SumSeq([i \in 1..Len(goal.modelPortfolioDetails) |->
               Max(0, goal.modelPortfolioDetails[i].weight)])

\* the share of product i of the order when the fee-adjusted fallback ideals
\* orderAmount * w / (sum of weights) / (1 - fee) are scaled to orderAmount
FallbackShare(i) ==
    LET adj == [j \in 1..Len(allocs) |->
                   RatQuot(Rat(goal.orderAmount * allocs[j].mp.weight, SumOfPositiveWeights),
                           <<FeeDen - allocs[j].mp.transactionFee, FeeDen>>)]
    IN  RatMulInt(RatQuot(adj[i], RatSumSeq(adj)), goal.orderAmount)

NextViolation == rep.violations[rep.vi]

\* the loop is about to consider a violation
ConsidersViolation == IsInvestment /\ pc = "tiers" /\ rep.vi <= Len(rep.violations)

\* C23: the violations are considered in ascending order of bump
\* (reqGross - gross); the step on a violation whose bump is at most the
\* remaining safe-slack pool sets it to exactly its reqGross, lowers the pool
\* by exactly that bump, changes no other amount and zeroes no product.
C23_TierOne ==
    /\ [](IsInvestment /\ pc = "tiers" =>
             \A k \in 1..Len(rep.violations) :
                 /\ rep.violations[k].bump =
                        rep.items[rep.violations[k].idx].reqGross
                            - grossAmounts[rep.violations[k].idx]
                 /\ k < Len(rep.violations) =>
                        rep.violations[k].bump <= rep.violations[k + 1].bump)
    /\ [][(ConsidersViolation /\ NextViolation.bump <= rep.remainingSlack) =>
             /\ rep'.vi = rep.vi + 1
             /\ rep'.result[NextViolation.idx] = rep.items[NextViolation.idx].reqGross
             /\ \A i \in 1..Len(rep.result) :
                    i # NextViolation.idx => rep'.result[i] = rep.result[i]
             /\ rep'.remainingSlack = rep.remainingSlack - NextViolation.bump
             /\ rep'.zeroedSet = rep.zeroedSet]_vars

\* Tier 1 has cured the cheaper of two violations with different bumps and
\* the pool still holds safe slack
C23_Witness ==
    /\ IsInvestment /\ pc = "tiers" /\ rep.vi = 2
    /\ Len(rep.violations) = 2
    /\ rep.violations[1].bump < rep.violations[2].bump
    /\ rep.result[rep.violations[1].idx] = rep.items[rep.violations[1].idx].reqGross
    /\ rep.zeroedSet = {}
    /\ rep.remainingSlack > 0

\* the products in violation before the repair
ViolatingProducts == {rep.violations[k].idx : k \in 1..Len(rep.violations)}

\* the non-violating products not yet zeroed, whatever their gross amount
NonViolatingNotZeroed ==
    {i \in 1..Len(rep.items) : i \notin ViolatingProducts /\ i \notin rep.zeroedSet}

\* the non-violating products not yet zeroed that have a positive gross
\* amount: the products the repair can take from
FundingNotZeroed == {i \in NonViolatingNotZeroed : grossAmounts[i] > 0}

\* the zero-out candidates: the non-violating products with a positive gross
\* amount, not yet zeroed, with reqGross > 0
ZeroOutCandidates ==
    {i \in 1..Len(rep.items) :
        /\ i \notin ViolatingProducts
        /\ grossAmounts[i] > 0
        /\ i \notin rep.zeroedSet
        /\ rep.items[i].reqGross > 0}

\* the sum of reqGross over the products in S
ReqGrossOver(S) ==
    SumSeq([i \in 1..Len(rep.items) |-> IF i \in S THEN rep.items[i].reqGross ELSE 0])

\* candidate i comes before candidate j: smaller reqGross, or equal reqGross
\* and earlier in the model
ZeroedBefore(i, j) ==
    \/ rep.items[i].reqGross < rep.items[j].reqGross
    \/ rep.items[i].reqGross = rep.items[j].reqGross /\ i < j

\* the gap between the bump of the next violation and the remaining pool
TierTwoGap == NextViolation.bump - rep.remainingSlack

\* taken is what the ascending scan of the candidates takes until the gap is
\* covered: a set of candidates closed under ZeroedBefore, that covers the
\* gap, and that no longer covers it without its last candidate
TakenUntilCovered(taken) ==
    /\ taken \subseteq ZeroOutCandidates
    /\ \A i \in taken : \A j \in ZeroOutCandidates \ taken : ZeroedBefore(i, j)
    /\ ReqGrossOver(taken) >= TierTwoGap
    /\ \A i \in taken : ReqGrossOver({j \in taken : ZeroedBefore(j, i)}) < TierTwoGap

\* the candidates as C24 states them: every non-violating product not yet
\* zeroed with reqGross > 0, whatever its gross amount
StatedZeroOutCandidates == {i \in NonViolatingNotZeroed : rep.items[i].reqGross > 0}

AbsorbedByZeroed ==
    SumSeq([i \in 1..Len(grossAmounts) |-> IF i \in rep.zeroedSet THEN grossAmounts[i] ELSE 0])

\* the repair has returned and the zeroed products absorbed more than the
\* bumps used
OverZeroed == Repaired /\ ~rep.returned /\ AbsorbedByZeroed > rep.totalBumpUsed

\* the cured violations, in the order the repair considered them
CuredViolations ==
    SelectSeq(rep.violations, LAMBDA v : rep.result[v.idx] = rep.items[v.idx].reqGross)

\* C25: when the gross absorbed by the zeroed products exceeds the total bump
\* used, the whole excess is added back to the cured products, one minimal
\* unit at a time in turn (the k-th cured product gets its turn before the
\* k+1-th, so the shares differ by at most one unit); every other product
\* that is not zeroed keeps its gross amount from before the repair, and
\* every cured product ends at or above its reqGross.
C25_OverZeroingRefund ==
    OverZeroed =>
        LET excess == AbsorbedByZeroed - rep.totalBumpUsed
            cured == CuredViolations
            n == Len(cured)
            added == [k \in 1..n |-> result[cured[k].idx] - rep.items[cured[k].idx].reqGross]
        IN  /\ n > 0
            /\ SumSeq(added) = excess
            /\ \A k \in 1..n :
                   /\ added[k] >= 0
                   /\ added[k] = (excess \div n) * Unit
                                     + (IF k <= (excess \div Unit) % n THEN Unit ELSE 0)
            /\ \A i \in 1..Len(result) :
                   /\ i \in rep.zeroedSet => result[i] = 0
                   /\ (i \notin rep.zeroedSet /\ \A k \in 1..n : cured[k].idx # i) =>
                          result[i] = grossAmounts[i]

\* the repair has returned after an over-zeroing whose excess of an odd
\* number of units went to two cured products
C25_Witness ==
    /\ OverZeroed
    /\ Len(CuredViolations) = 2
    /\ (AbsorbedByZeroed - rep.totalBumpUsed) % 2 = 1
    /\ result[CuredViolations[1].idx] - rep.items[CuredViolations[1].idx].reqGross
           = 1 + result[CuredViolations[2].idx] - rep.items[CuredViolations[2].idx].reqGross

\* C26 as stated: the violation considered is cured exactly when its bump is
\* at most the remaining pool plus the reqGross of all non-violating products
\* not yet zeroed.
C26_CuredIffAllNonViolatingCover ==
    [][ConsidersViolation =>
          ((rep'.result[NextViolation.idx] = rep.items[NextViolation.idx].reqGross)
              <=> (NextViolation.bump
                      <= rep.remainingSlack + ReqGrossOver(NonViolatingNotZeroed)))]_vars

\* C26: the violation considered is cured exactly when its bump is at most
\* the remaining safe-slack pool plus the reqGross of the non-violating
\* products with a positive gross amount that are not yet zeroed; it is left
\* uncured only if its bump is strictly greater than that total.
C26_CureCompleteness ==
    [][ConsidersViolation =>
          ((rep'.result[NextViolation.idx] = rep.items[NextViolation.idx].reqGross)
              <=> (NextViolation.bump
                      <= rep.remainingSlack + ReqGrossOver(FundingNotZeroed)))]_vars

\* the first violation has been left uncured: its bump exceeds the pool plus
\* the reqGross of the funding products, although a product with a gross
\* amount of zero has a reqGross that would have covered it
C26_Witness ==
    /\ IsInvestment /\ pc = "tiers" /\ rep.vi = 2
    /\ rep.result[rep.violations[1].idx] = grossAmounts[rep.violations[1].idx]
    /\ rep.violations[1].bump > rep.remainingSlack + ReqGrossOver(FundingNotZeroed)
    /\ rep.violations[1].bump <= rep.remainingSlack + ReqGrossOver(NonViolatingNotZeroed)

\* the number of products ProcessInvestment emitted
EmittedCount == Len(details)

\* C27: the emitted BUY amounts sum to at most orderAmount, and orderAmount
\* minus that sum is strictly less than one minimal unit per emitted product
\* (stated for the orders that emit at least one product).
C27_NeverOverAllocates ==
    (IsInvestment /\ pc = "done" /\ EmittedCount >= 1) =>
        /\ SumSeq(DetailValues) <= goal.orderAmount
        /\ goal.orderAmount - SumSeq(DetailValues) < EmittedCount * Unit

\* emitted allocation k carries a violation descriptor
IsFlagged(k) == details[k].error # NoError

\* the gross of emitted allocation k is positive and strictly below the
\* reqGross of its product
BelowReqGross(k) ==
    /\ details[k].value > 0
    /\ details[k].value < ReqGross(allocs[k], goal.amountDecimalPrecision)

\* C28: the violation test of repairViolations and the flag test of
\* ProcessInvestment agree: an emitted investment allocation carries a
\* violation descriptor if and only if its gross is positive and strictly
\* below reqGross = ceil(max(minAmt, minUnits * price) / (1 - fee)), the
\* minimums chosen by whether the product's current value is zero; the code
\* of the descriptor follows the same choice.
C28_FlagAgreesWithReqGross ==
    (IsInvestment /\ pc = "done") =>
        \A k \in 1..Len(details) :
            /\ IsFlagged(k) <=> BelowReqGross(k)
            /\ IsFlagged(k) => details[k].error = ViolationCode(k)

\* C28 witness: one order emits a flagged allocation one minimal unit below
\* a reqGross that was rounded up, and an unflagged allocation of a product
\* with a fee exactly at its rounded-up reqGross.
C28_Witness ==
    /\ IsInvestment
    /\ pc = "done"
    /\ \E k \in 1..Len(details) :
          /\ IsFlagged(k)
          /\ details[k].value = ReqGross(allocs[k], goal.amountDecimalPrecision) - Unit
          /\ details[k].value * FeeDen >= RequiredNet(allocs[k]) * FeeDen
          /\ allocs[k].mp.transactionFee > 0
    /\ \E k \in 1..Len(details) :
          /\ ~IsFlagged(k)
          /\ details[k].value = ReqGross(allocs[k], goal.amountDecimalPrecision)
          /\ ReqGross(allocs[k], goal.amountDecimalPrecision) * (FeeDen - allocs[k].mp.transactionFee)
                 > RequiredNet(allocs[k]) * FeeDen

\* the loop has considered violation k and left it uncured: its amount is
\* still the gross it had before the repair
LeftUncured(k) ==
    /\ k < rep.vi
    /\ rep.result[rep.violations[k].idx] = grossAmounts[rep.violations[k].idx]

\* the loop has considered violation k and cured it: its amount is its
\* reqGross
CuredInLoop(k) ==
    /\ k < rep.vi
    /\ rep.result[rep.violations[k].idx] = rep.items[rep.violations[k].idx].reqGross

\* C29: the cured violations form a prefix of the bump-ordered violation
\* list: every considered violation is either cured or left uncured, no
\* violation after an uncured one is cured, and the step on a violation that
\* comes after an uncured one changes neither an amount nor the pool nor the
\* zeroed set.
C29_CuredPrefix ==
    /\ []((IsInvestment /\ pc \in {"tiers", "emit", "done"}) =>
             \A j \in 1..Len(rep.violations) :
                 /\ j < rep.vi => (CuredInLoop(j) \/ LeftUncured(j))
                 /\ ~(CuredInLoop(j) /\ LeftUncured(j))
                 /\ \A k \in 1..(j - 1) :
                        /\ rep.violations[k].bump <= rep.violations[j].bump
                        /\ LeftUncured(k) => ~CuredInLoop(j)
                 /\ (pc = "done" /\ \E k \in 1..(j - 1) : LeftUncured(k)) =>
                        details[rep.violations[j].idx].value
                            = grossAmounts[rep.violations[j].idx])
    /\ [][(ConsidersViolation /\ \E k \in 1..Len(rep.violations) : LeftUncured(k)) =>
             /\ rep'.vi = rep.vi + 1
             /\ rep'.result = rep.result
             /\ rep'.remainingSlack = rep.remainingSlack
             /\ rep'.zeroedSet = rep.zeroedSet
             /\ rep'.totalBumpUsed = rep.totalBumpUsed]_vars

\* C29 witness: the loop has left a first violation uncured although the
\* pool holds safe slack, and has then considered a second violation with a
\* strictly larger bump.
C29_Witness ==
    /\ IsInvestment /\ pc = "tiers" /\ rep.vi = 3
    /\ Len(rep.violations) = 2
    /\ LeftUncured(1) /\ LeftUncured(2)
    /\ rep.violations[1].bump < rep.violations[2].bump
    /\ rep.remainingSlack > 0

\* Phase 2 has computed the amount of allocation k as a pair
\* <<exact, deviation>>
IsWholeUnitAmount(k) ==
    goal.amountDecimalPrecision = DivisionPrecision /\ k > PhaseOneCount

\* the amount of allocation k is above the value held of its product
SoldBeyondHeld(k) ==
    LET held == ValueHeldOf(details[k].ticker)
        amt == details[k].value
    IN  IF IsWholeUnitAmount(k)
        THEN \/ amt[1][1] > held * amt[1][2]
             \/ amt[1][1] = held * amt[1][2] /\ amt[2][1] > 0
        ELSE amt > held

\* the amount of allocation k is zero
SoldNothing(k) ==
    IF IsWholeUnitAmount(k)
    THEN details[k].value = <<<<0, 1>>, <<0, 1>>>>
    ELSE details[k].value = 0

\* C30: ProcessRedemption never sells more than is held: when orderAmount is
\* at most the total held value and the positive model weights sum to at
\* most 1, every emitted SELL amount is at most the current value of that
\* product's holding, and a modeled product that is not held (or held with
\* value 0) is emitted with amount 0 and no violation.
C30_NeverSellsMoreThanHeld ==
    (/\ IsRedemption /\ pc = "done"
     /\ goal.orderAmount <= TotalHeldValue
     /\ SumOfPositiveWeights <= WeightDen) =>
        \A k \in 1..Len(details) :
            /\ details[k].direction = "SELL"
            /\ ~SoldBeyondHeld(k)
            /\ ValueHeldOf(details[k].ticker) = 0 =>
                   (SoldNothing(k) /\ details[k].error = NoError)

====
